---- MODULE Spec2Model ----
(***************************************************************************)
(* keras_retinanet/models/resnet.py: the ResNet backbone descriptor        *)
(* (ResNetBackbone) and the model constructors resnet_retinanet and        *)
(* dualresnet_retinanet with their depth-specific wrappers.                *)
(*                                                                         *)
(* A Python string is a sequence of one-character strings.  The objects    *)
(* the external libraries create (input placeholders, networks, layers)    *)
(* live in a heap and are referred to by their index; every call into an   *)
(* external library is appended to the log `calls`.                        *)
(***************************************************************************)
EXTENDS Integers, Sequences, FiniteSets, TLC

VARIABLES
    self_backbone,  \* ResNetBackbone.backbone of the descriptor
    valid,          \* outcome of the descriptor's validate() call
    dl,             \* outcome of the descriptor's download_imagenet() call
    pc,             \* position in the running constructor call
    entry,          \* the function the caller invoked
    frame,          \* arguments and local variables of the constructor call
    placeholders,   \* heap: keras.layers.Input objects
    nets,           \* heap: network objects
    lname,          \* heap: layer.name of every layer object
    cache,          \* the network a memoising modifier holds on to
    calls,          \* log of the calls made into external libraries
    err,            \* the exception that ended the call
    result          \* the value the call returned

vars == <<self_backbone, valid, dl, pc, entry, frame, placeholders, nets,
          lname, cache, calls, err, result>>

descriptor == <<self_backbone, valid, dl>>
heap == <<placeholders, nets, lname, cache>>

-----------------------------------------------------------------------------
(* Strings *)

resnet_str == <<"r", "e", "s", "n", "e", "t">>
resnet50 == resnet_str \o <<"5", "0">>
resnet101 == resnet_str \o <<"1", "0", "1">>
resnet152 == resnet_str \o <<"1", "5", "2">>
resnet34 == resnet_str \o <<"3", "4">>

\* line 73
allowed_backbones == <<resnet50, resnet101, resnet152>>

Range(s) == {s[i] : i \in 1..Len(s)}

\* The identifiers a caller may supply: a stem followed by at most
\* MaxSuffixLen characters of SuffixAlphabet.
MaxSuffixLen == 2
SuffixAlphabet == {"_", "1", "v"}
Stems == {resnet50, resnet101, resnet152, resnet34, resnet_str}
Suffixes == UNION {[1..k -> SuffixAlphabet] : k \in 0..MaxSuffixLen}
Names == {b \o s : b \in Stems, s \in Suffixes}

\* str.split(sep) for a one-character separator: the pieces between the
\* occurrences of sep, in order.
RECURSIVE split(_, _)
split(s, sep) ==
    IF \A i \in 1..Len(s) : s[i] # sep
    THEN <<s>>
    ELSE LET i == CHOOSE k \in 1..Len(s) :
                      s[k] = sep /\ \A j \in 1..(k - 1) : s[j] # sep
         IN  <<SubSeq(s, 1, i - 1)>> \o split(SubSeq(s, i + 1, Len(s)), sep)

\* str.replace(old, new): every non-overlapping occurrence of old, scanning
\* from the left, is replaced by new.
RECURSIVE replace(_, _, _)
replace(s, old, new) ==
    IF Len(s) < Len(old) THEN s
    ELSE IF SubSeq(s, 1, Len(old)) = old
         THEN new \o replace(SubSeq(s, Len(old) + 1, Len(s)), old, new)
         ELSE <<s[1]>> \o replace(Tail(s), old, new)

Digits == {"0", "1", "2", "3", "4", "5", "6", "7", "8", "9"}
DigitVal(c) ==
    CASE c = "0" -> 0 [] c = "1" -> 1 [] c = "2" -> 2 [] c = "3" -> 3
      [] c = "4" -> 4 [] c = "5" -> 5 [] c = "6" -> 6 [] c = "7" -> 7
      [] c = "8" -> 8 [] c = "9" -> 9
DigitChar(d) ==
    CASE d = 0 -> "0" [] d = 1 -> "1" [] d = 2 -> "2" [] d = 3 -> "3"
      [] d = 4 -> "4" [] d = 5 -> "5" [] d = 6 -> "6" [] d = 7 -> "7"
      [] d = 8 -> "8" [] d = 9 -> "9"

\* int(s) of Python 3.6 and later on a string of digits, letters and
\* underscores: s is a literal when it is made of decimal digits, possibly
\* grouped by single underscores standing between two digits; anything else
\* raises ValueError.  (Earlier versions raise ValueError for an underscore
\* too.)
int_accepts(s) ==
    /\ Len(s) > 0
    /\ \A i \in 1..Len(s) : s[i] \in Digits \cup {"_"}
    /\ s[1] # "_"
    /\ s[Len(s)] # "_"
    /\ \A i \in 1..(Len(s) - 1) : ~(s[i] = "_" /\ s[i + 1] = "_")

RECURSIVE int_digits(_, _)
int_digits(s, acc) ==
    IF s = <<>> THEN acc
    ELSE IF s[1] = "_" THEN int_digits(Tail(s), acc)
         ELSE int_digits(Tail(s), 10 * acc + DigitVal(s[1]))

int(s) == int_digits(s, 0)

\* '{}'.format(n) for a natural number n
RECURSIVE str(_)
str(n) == IF n < 10 THEN <<DigitChar(n)>> ELSE str(n \div 10) \o <<DigitChar(n % 10)>>

EndsWith(s, t) ==
    Len(s) >= Len(t) /\ SubSeq(s, Len(s) - Len(t) + 1, Len(s)) = t

StartsWith(s, t) ==
    Len(s) >= Len(t) /\ SubSeq(s, 1, Len(t)) = t

-----------------------------------------------------------------------------
(* ResNetBackbone *)

\* mutant: the identifier is looked up whole, without cutting the suffix off
validate_backbone_whole(b) == b

\* line 74: self.backbone.split('_')[0]
validate_backbone(b) == split(b, "_")[1]

\* lines 73-77: TRUE when validate() returns, FALSE when it raises ValueError
validate(b) == validate_backbone(b) \in Range(allowed_backbones)

\* str.format on a template holding one '{}' field
format(template, s) ==
    LET i == CHOOSE k \in 1..Len(template) : template[k] = "{}"
    IN  SubSeq(template, 1, i - 1) \o s \o SubSeq(template, i + 1, Len(template))

\* line 50
resnet_filename == <<"ResNet-", "{}", "-model.keras.h5">>
\* line 51
resnet_resource ==
    format(<<"https://github.com/fizyr/keras-models/releases/download/v0.0.1/", "{}">>,
           resnet_filename)

Unbound == "<unbound>"

\* lines 56-61: the if/elif chain has no else, so checksum stays unbound
\* for any other depth
checksum(depth) ==
    IF depth = 50 THEN "3e9f4e4f77bbe2c9bec13b53ee1c2319"
    ELSE IF depth = 101 THEN "05dc86924389e5b401a9ea0348a3213c"
    ELSE IF depth = 152 THEN "6ee11ef2b135592f8031058820bb9e71"
    ELSE Unbound

\* lines 46-68: the call made to get_file, or the exception raised before it
download_imagenet(b) ==
    LET s == replace(b, resnet_str, <<>>)
    IN  IF ~int_accepts(s)
        THEN [outcome |-> "ValueError", depth |-> 0, filename |-> <<>>,
              resource |-> <<>>, md5_hash |-> Unbound]
        ELSE LET depth == int(s)
             IN  [outcome  |-> IF checksum(depth) = Unbound
                               THEN "UnboundLocalError" ELSE "get_file",
                  depth    |-> depth,
                  filename |-> format(resnet_filename, str(depth)),
                  resource |-> format(resnet_resource, str(depth)),
                  md5_hash |-> checksum(depth)]

NotCalled == "not called"

\* download_imagenet() has not been called
NoDownload ==
    [outcome |-> NotCalled, depth |-> 0, filename |-> <<>>, resource |-> <<>>,
     md5_hash |-> Unbound]

Validate ==
    /\ pc = "idle"
    /\ valid = NotCalled
    /\ valid' = IF validate(self_backbone) THEN "ok" ELSE "ValueError"
    /\ UNCHANGED <<self_backbone, dl, pc, entry, frame, heap, calls, err, result>>

DownloadImagenet ==
    /\ pc = "idle"
    /\ dl.outcome = NotCalled
    /\ dl' = download_imagenet(self_backbone)
    /\ UNCHANGED <<self_backbone, valid, pc, entry, frame, heap, calls, err, result>>

-----------------------------------------------------------------------------
(* The objects of keras and keras_resnet *)

\* a dimension left unconstrained (None) in a placeholder's shape
NoneDim == -1

DataFormats == {"channels_first", "channels_last"}
Depths == {1, 3}
NumClasses == {1, 10}
Modifiers == {"None", "freeze", "wrap", "cached"}
Weights == {"None", "weights.h5"}
KwargKeys == {"inputs", "name"}
WrapOutputs == {1, 2}

\* layers a backbone builder creates besides the input layer
NumLayers == 2
\* output tensors of a network a backbone builder returns
NumOutputs == 3

\* lines 98-101, 137-142: the shape of the placeholder
InputShape(data_format, depth) ==
    IF data_format = "channels_first"
    THEN <<depth, NoneDim, NoneDim>>
    ELSE <<NoneDim, NoneDim, depth>>

\* keras.layers.Input(shape): a new placeholder and its input layer, which
\* keras names input_<n>
NewPlaceholder(shape, lid) == [shape |-> shape, layer |-> lid]
InputLayerName(pid) == <<"i", "n", "p", "u", "t", "_">> \o str(pid)

\* the names keras_resnet gives the layers of a backbone: the same in every
\* instance
BackboneLayerName(k) == <<"c", "o", "n", "v">> \o str(k)

\* mutant: an unknown identifier falls back to the default backbone
Builder_with_default(b) ==
    IF b = resnet101 THEN "ResNet101"
    ELSE IF b = resnet152 THEN "ResNet152"
    ELSE "ResNet50"

\* lines 104-111, 145-155: the if/elif chain on the identifier
Builder(b) ==
    IF b = resnet50 THEN "ResNet50"
    ELSE IF b = resnet101 THEN "ResNet101"
    ELSE IF b = resnet152 THEN "ResNet152"
    ELSE "ValueError"

\* keras_resnet.models.ResNetNN(inputs, include_top=False, freeze_bn=True):
\* network nid over placeholder pid, its new layers numbered from base + 1
NewResNet(builder, pid, nid, base) ==
    [builder     |-> builder,
     input       |-> pid,
     include_top |-> FALSE,
     freeze_bn   |-> TRUE,
     layers      |-> <<placeholders[pid].layer>> \o [k \in 1..NumLayers |-> base + k],
     outputs     |-> [k \in 1..NumOutputs |-> <<nid, k>>]]

\* a modifier that returns a new network built on top of network n: the
\* layers of n, one more layer, and j output tensors of its own
WrappedNet(n, nid, lid, j) ==
    [builder     |-> "modifier",
     input       |-> nets[n].input,
     include_top |-> FALSE,
     freeze_bn   |-> TRUE,
     layers      |-> Append(nets[n].layers, lid),
     outputs     |-> [k \in 1..j |-> <<nid, k>>]]

WrapLayerName == <<"t", "o", "p">>

\* names of the layers of network n, in the order of n.layers
LayerNames(n) == [i \in 1..Len(nets[n].layers) |-> lname[nets[n].layers[i]]]

\* mutant: the whole output list is forwarded
slice_from_0(s) == s

\* resnet.outputs[1:]
slice_from_1(s) == SubSeq(s, 2, Len(s))

\* an entry of the log of external calls
Call(op, obj, ret) ==
    [op |-> op, obj |-> obj, ret |-> ret, inputs |-> <<>>, num_classes |-> 0,
     backbone_layers |-> <<>>, backbone_layers_b |-> <<>>, kwargs |-> {},
     names |-> <<>>, names_b |-> <<>>, skip_mismatch |-> FALSE, by_name |-> FALSE]

\* arguments not read yet and locals not assigned yet
Unread == "unread"
EmptyFrame ==
    [backbone |-> <<>>, data_format |-> Unread,
     input_depth |-> 0, input_depth_a |-> 0, input_depth_b |-> 0,
     modifier |-> Unread, weights |-> Unread, skip_mismatch |-> TRUE,
     kwargs |-> {}, num_classes |-> 0,
     inputs |-> 0, inputs_a |-> 0, inputs_b |-> 0,
     resnet |-> 0, resnet_a |-> 0, resnet_b |-> 0]

-----------------------------------------------------------------------------
(* Entering a constructor.  An argument is drawn with \E by the step that    *)
(* first reads it and is kept in the frame from then on.                     *)

Enter(fn, first, b, kw) ==
    /\ pc' = first
    /\ entry' = fn
    /\ frame' = [EmptyFrame EXCEPT !.backbone = b, !.kwargs = kw]
    /\ UNCHANGED <<descriptor, heap, calls, err, result>>

\* a direct call resnet_retinanet(num_classes, backbone=b, ...)
CallResnetRetinanet(b) ==
    /\ pc = "idle"
    /\ Enter("resnet_retinanet", "s_input", b, {})

\* a direct call dualresnet_retinanet(num_classes, backbone=b, ...)
CallDualresnetRetinanet(b) ==
    /\ pc = "idle"
    /\ Enter("dualresnet_retinanet", "d_input", b, {})

\* lines 36-39
Retinanet ==
    /\ pc = "idle"
    /\ Enter("ResNetBackbone.retinanet", "s_input", self_backbone, {})

\* lines 41-44
DualstreamRetinanet ==
    /\ pc = "idle"
    /\ Enter("ResNetBackbone.dualstream_retinanet", "d_input", self_backbone, {})

\* lines 181-188: the wrappers pass inputs=inputs on, and resnet_retinanet,
\* which has no parameter of that name, receives it in **kwargs
Resnet50Retinanet ==
    /\ pc = "idle"
    /\ Enter("resnet50_retinanet", "s_input", resnet50, {"inputs"})

Resnet101Retinanet ==
    /\ pc = "idle"
    /\ Enter("resnet101_retinanet", "s_input", resnet101, {"inputs"})

Resnet152Retinanet ==
    /\ pc = "idle"
    /\ Enter("resnet152_retinanet", "s_input", resnet152, {"inputs"})

Wrappers == {"resnet50_retinanet", "resnet101_retinanet", "resnet152_retinanet"}
SingleEntries == Wrappers \cup {"resnet_retinanet", "ResNetBackbone.retinanet"}
DualEntries == {"dualresnet_retinanet", "ResNetBackbone.dualstream_retinanet"}

Raise(e) ==
    /\ pc' = "raised"
    /\ err' = e
    /\ UNCHANGED result

-----------------------------------------------------------------------------
(* The modifier and load_weights *)

\* what the modifier returns for network n
ModifierReturn(m, n) ==
    IF m = "wrap" THEN Len(nets) + 1
    ELSE IF m = "cached" /\ cache # 0 THEN cache
    ELSE n

\* mutant: the modifier is called and its return value dropped
AssignModified_dropped(old, returned) == old

\* lines 115, 159, 160: resnet = modifier(resnet)
AssignModified(old, returned) == returned

\* the call modifier(frame[var]) and the assignment of its result to var
ApplyModifier(m, j, var) ==
    LET n == frame[var]
        r == ModifierReturn(m, n)
    IN  /\ nets' = IF m = "wrap"
                   THEN Append(nets, WrappedNet(n, Len(nets) + 1, Len(lname) + 1, j))
                   ELSE nets
        /\ lname' = IF m = "wrap" THEN Append(lname, WrapLayerName) ELSE lname
        /\ cache' = IF m = "cached" /\ cache = 0 THEN n ELSE cache
        /\ calls' = Append(calls, Call("modifier", n, r))
        /\ frame' = [frame EXCEPT ![var] = AssignModified(n, r), !.modifier = m]
        /\ UNCHANGED placeholders

\* lines 119, 165, 166: n.load_weights(weights, by_name=True, skip_mismatch=...)
LoadWeights(n, skip) ==
    [Call("load_weights", n, 0) EXCEPT
        !.names = LayerNames(n), !.by_name = TRUE, !.skip_mismatch = skip]

-----------------------------------------------------------------------------
(* resnet_retinanet, lines 85-122 *)

\* the order of the statements of resnet_retinanet
single_next(p) ==
    CASE p = "s_input"    -> "s_build"
      [] p = "s_build"    -> "s_modifier"
      [] p = "s_modifier" -> "s_weights"
      [] p = "s_weights"  -> "s_head"
      [] p = "s_head"     -> "done"

\* lines 98-101
S_Input ==
    /\ pc = "s_input"
    /\ \E fmt \in DataFormats, d \in Depths :
         /\ placeholders' =
                Append(placeholders,
                       NewPlaceholder(InputShape(fmt, d), Len(lname) + 1))
         /\ lname' = Append(lname, InputLayerName(Len(placeholders) + 1))
         /\ frame' = [frame EXCEPT !.data_format = fmt, !.input_depth = d,
                                   !.inputs = Len(placeholders) + 1]
    /\ pc' = single_next(pc)
    /\ UNCHANGED <<descriptor, entry, nets, cache, calls, err, result>>

\* lines 104-111
S_Build ==
    /\ pc = "s_build"
    /\ IF Builder(frame.backbone) = "ValueError"
       THEN /\ Raise("ValueError")
            /\ UNCHANGED <<frame, heap, calls>>
       ELSE /\ nets' = Append(nets, NewResNet(Builder(frame.backbone), frame.inputs,
                                              Len(nets) + 1, Len(lname)))
            /\ lname' = lname \o [k \in 1..NumLayers |-> BackboneLayerName(k)]
            /\ calls' = Append(calls, Call(Builder(frame.backbone), frame.inputs,
                                           Len(nets) + 1))
            /\ frame' = [frame EXCEPT !.resnet = Len(nets) + 1]
            /\ pc' = single_next(pc)
            /\ UNCHANGED <<placeholders, cache, err, result>>
    /\ UNCHANGED <<descriptor, entry>>

\* lines 114-115
S_Modifier ==
    /\ pc = "s_modifier"
    /\ \E m \in Modifiers, j \in WrapOutputs :
         IF m = "None"
         THEN /\ frame' = [frame EXCEPT !.modifier = m]
              /\ UNCHANGED <<heap, calls>>
         ELSE ApplyModifier(m, j, "resnet")
    /\ pc' = single_next(pc)
    /\ UNCHANGED <<descriptor, entry, err, result>>

\* lines 117-119
S_Weights ==
    /\ pc = "s_weights"
    /\ \E w \in Weights, skip \in BOOLEAN, ok \in BOOLEAN :
         IF w = "None"
         THEN /\ frame' = [frame EXCEPT !.weights = w]
              /\ pc' = single_next(pc)
              /\ UNCHANGED <<calls, err, result>>
         ELSE /\ frame' = [frame EXCEPT !.weights = w, !.skip_mismatch = skip]
              /\ calls' = Append(calls, LoadWeights(frame.resnet, skip))
              /\ IF ok
                 THEN pc' = single_next(pc) /\ UNCHANGED <<err, result>>
                 ELSE Raise("load_weights error")
    /\ UNCHANGED <<descriptor, entry, heap>>

\* line 122
S_Head ==
    /\ pc = "s_head"
    /\ \E nc \in NumClasses, extra \in SUBSET KwargKeys :
         LET kw == frame.kwargs \cup extra
         IN  /\ frame' = [frame EXCEPT !.num_classes = nc, !.kwargs = kw]
             /\ IF kw \cap {"inputs", "num_classes", "backbone_layers"} # {}
                THEN /\ Raise("TypeError")
                     /\ UNCHANGED calls
                ELSE /\ calls' = Append(calls,
                            [Call("retinanet", 0, 0) EXCEPT
                                !.inputs = <<frame.inputs>>,
                                !.num_classes = nc,
                                !.backbone_layers = slice_from_1(nets[frame.resnet].outputs),
                                !.kwargs = kw])
                     /\ pc' = single_next(pc)
                     /\ result' = "retinanet"
                     /\ UNCHANGED err
    /\ UNCHANGED <<descriptor, entry, heap>>

-----------------------------------------------------------------------------
(* dualresnet_retinanet, lines 124-179 *)

\* mutant: the layers are renamed before the weights are loaded
dual_next_rename_first(p) ==
    CASE p = "d_input"      -> "d_build"
      [] p = "d_build"      -> "d_modifier_a"
      [] p = "d_modifier_a" -> "d_modifier_b"
      [] p = "d_modifier_b" -> "d_rename_a"
      [] p = "d_rename_a"   -> "d_rename_b"
      [] p = "d_rename_b"   -> "d_weights_a"
      [] p = "d_weights_a"  -> "d_weights_b"
      [] p = "d_weights_b"  -> "d_head"
      [] p = "d_head"       -> "done"

\* the order of the statements of dualresnet_retinanet
dual_next(p) ==
    CASE p = "d_input"      -> "d_build"
      [] p = "d_build"      -> "d_modifier_a"
      [] p = "d_modifier_a" -> "d_modifier_b"
      [] p = "d_modifier_b" -> "d_weights_a"
      [] p = "d_weights_a"  -> "d_weights_b"
      [] p = "d_weights_b"  -> "d_rename_a"
      [] p = "d_rename_a"   -> "d_rename_b"
      [] p = "d_rename_b"   -> "d_head"
      [] p = "d_head"       -> "done"

\* mutant: placeholder B is given the depth of stream A
depth_of_b_from_a(input_depth_a, input_depth_b) == input_depth_a

\* mutant: stream B is given the suffix of stream A
suffix_b_as_a == <<"_", "a">>

\* lines 138-139, 141-142: the depth each placeholder is given
depth_of_a(input_depth_a, input_depth_b) == input_depth_a
depth_of_b(input_depth_a, input_depth_b) == input_depth_b

\* lines 170, 172
suffix_a == <<"_", "a">>
suffix_b == <<"_", "b">>

\* lines 137-142
D_Input ==
    /\ pc = "d_input"
    /\ \E fmt \in DataFormats, da \in Depths, db \in Depths :
         /\ placeholders' =
                placeholders \o
                <<NewPlaceholder(InputShape(fmt, depth_of_a(da, db)), Len(lname) + 1),
                  NewPlaceholder(InputShape(fmt, depth_of_b(da, db)), Len(lname) + 2)>>
         /\ lname' = lname \o <<InputLayerName(Len(placeholders) + 1),
                               InputLayerName(Len(placeholders) + 2)>>
         /\ frame' = [frame EXCEPT !.data_format = fmt,
                                   !.input_depth_a = da, !.input_depth_b = db,
                                   !.inputs_a = Len(placeholders) + 1,
                                   !.inputs_b = Len(placeholders) + 2]
    /\ pc' = dual_next(pc)
    /\ UNCHANGED <<descriptor, entry, nets, cache, calls, err, result>>

\* lines 145-155
D_Build ==
    /\ pc = "d_build"
    /\ IF Builder(frame.backbone) = "ValueError"
       THEN /\ Raise("ValueError")
            /\ UNCHANGED <<frame, heap, calls>>
       ELSE LET kind == Builder(frame.backbone)
                na == Len(nets) + 1
                nb == Len(nets) + 2
            IN  /\ nets' = nets \o
                       <<NewResNet(kind, frame.inputs_a, na, Len(lname)),
                         NewResNet(kind, frame.inputs_b, nb, Len(lname) + NumLayers)>>
                /\ lname' = lname \o [k \in 1..NumLayers |-> BackboneLayerName(k)]
                                  \o [k \in 1..NumLayers |-> BackboneLayerName(k)]
                /\ calls' = calls \o <<Call(kind, frame.inputs_a, na),
                                       Call(kind, frame.inputs_b, nb)>>
                /\ frame' = [frame EXCEPT !.resnet_a = na, !.resnet_b = nb]
                /\ pc' = dual_next(pc)
                /\ UNCHANGED <<placeholders, cache, err, result>>
    /\ UNCHANGED <<descriptor, entry>>

\* lines 158-159
D_ModifierA ==
    /\ pc = "d_modifier_a"
    /\ \E m \in Modifiers, j \in WrapOutputs :
         IF m = "None"
         THEN /\ frame' = [frame EXCEPT !.modifier = m]
              /\ pc' = dual_next(dual_next(pc))
              /\ UNCHANGED <<heap, calls>>
         ELSE /\ ApplyModifier(m, j, "resnet_a")
              /\ pc' = dual_next(pc)
    /\ UNCHANGED <<descriptor, entry, err, result>>

\* line 160
D_ModifierB ==
    /\ pc = "d_modifier_b"
    /\ \E j \in WrapOutputs : ApplyModifier(frame.modifier, j, "resnet_b")
    /\ pc' = dual_next(pc)
    /\ UNCHANGED <<descriptor, entry, err, result>>

\* lines 163-165
D_WeightsA ==
    /\ pc = "d_weights_a"
    /\ \E w \in Weights, skip \in BOOLEAN, ok \in BOOLEAN :
         IF w = "None"
         THEN /\ frame' = [frame EXCEPT !.weights = w]
              /\ pc' = dual_next(dual_next(pc))
              /\ UNCHANGED <<calls, err, result>>
         ELSE /\ frame' = [frame EXCEPT !.weights = w, !.skip_mismatch = skip]
              /\ calls' = Append(calls, LoadWeights(frame.resnet_a, skip))
              /\ IF ok
                 THEN pc' = dual_next(pc) /\ UNCHANGED <<err, result>>
                 ELSE Raise("load_weights error")
    /\ UNCHANGED <<descriptor, entry, heap>>

\* line 166
D_WeightsB ==
    /\ pc = "d_weights_b"
    /\ calls' = Append(calls, LoadWeights(frame.resnet_b, frame.skip_mismatch))
    /\ \E ok \in BOOLEAN :
         IF ok
         THEN pc' = dual_next(pc) /\ UNCHANGED <<err, result>>
         ELSE Raise("load_weights error")
    /\ UNCHANGED <<descriptor, entry, frame, heap>>

\* the loop `for layer in n.layers: layer.name = layer.name + suffix`
RenameLayers(n, suffix) ==
    [i \in 1..Len(lname) |->
        IF i \in Range(nets[n].layers) THEN lname[i] \o suffix ELSE lname[i]]

\* lines 169-170
D_RenameA ==
    /\ pc = "d_rename_a"
    /\ lname' = RenameLayers(frame.resnet_a, suffix_a)
    /\ pc' = dual_next(pc)
    /\ UNCHANGED <<descriptor, entry, frame, placeholders, nets, cache, calls,
                   err, result>>

\* lines 171-172
D_RenameB ==
    /\ pc = "d_rename_b"
    /\ lname' = RenameLayers(frame.resnet_b, suffix_b)
    /\ pc' = dual_next(pc)
    /\ UNCHANGED <<descriptor, entry, frame, placeholders, nets, cache, calls,
                   err, result>>

\* lines 175-179
D_Head ==
    /\ pc = "d_head"
    /\ \E nc \in NumClasses, extra \in SUBSET KwargKeys :
         LET kw == frame.kwargs \cup extra
         IN  /\ frame' = [frame EXCEPT !.num_classes = nc, !.kwargs = kw]
             /\ IF kw \cap {"inputs_a", "inputs_b", "num_classes",
                            "backbone_layers_a", "backbone_layers_b"} # {}
                THEN /\ Raise("TypeError")
                     /\ UNCHANGED calls
                ELSE /\ calls' = Append(calls,
                            [Call("dualstream_retinanet", 0, 0) EXCEPT
                                !.inputs = <<frame.inputs_a, frame.inputs_b>>,
                                !.num_classes = nc,
                                !.backbone_layers =
                                    slice_from_1(nets[frame.resnet_a].outputs),
                                !.backbone_layers_b =
                                    slice_from_1(nets[frame.resnet_b].outputs),
                                !.names = LayerNames(frame.resnet_a),
                                !.names_b = LayerNames(frame.resnet_b),
                                !.kwargs = kw])
                     /\ pc' = dual_next(pc)
                     /\ result' = "dualstream_retinanet"
                     /\ UNCHANGED err
    /\ UNCHANGED <<descriptor, entry, heap>>

-----------------------------------------------------------------------------
(* Specifications *)

InitCall ==
    /\ valid = NotCalled
    /\ dl = NoDownload
    /\ pc = "idle"
    /\ entry = "none"
    /\ frame = EmptyFrame
    /\ placeholders = <<>>
    /\ nets = <<>>
    /\ lname = <<>>
    /\ cache = 0
    /\ calls = <<>>
    /\ err = "none"
    /\ result = "none"

\* the module's functions, called directly: no descriptor is involved
Init ==
    /\ self_backbone = <<>>
    /\ InitCall

Next ==
    \/ \E b \in Names : CallResnetRetinanet(b)
    \/ \E b \in Names : CallDualresnetRetinanet(b)
    \/ Resnet50Retinanet
    \/ Resnet101Retinanet
    \/ Resnet152Retinanet
    \/ S_Input \/ S_Build \/ S_Modifier \/ S_Weights \/ S_Head
    \/ D_Input \/ D_Build \/ D_ModifierA \/ D_ModifierB \/ D_WeightsA
    \/ D_WeightsB \/ D_RenameA \/ D_RenameB \/ D_Head

Spec == Init /\ [][Next]_vars

\* a ResNetBackbone descriptor and its methods
InitBackbone ==
    /\ self_backbone \in Names
    /\ InitCall

NextBackbone ==
    \/ Validate
    \/ DownloadImagenet
    \/ Retinanet
    \/ DualstreamRetinanet
    \/ S_Input \/ S_Build \/ S_Modifier \/ S_Weights \/ S_Head
    \/ D_Input \/ D_Build \/ D_ModifierA \/ D_ModifierB \/ D_WeightsA
    \/ D_WeightsB \/ D_RenameA \/ D_RenameB \/ D_Head

SpecBackbone == InitBackbone /\ [][NextBackbone]_vars

-----------------------------------------------------------------------------
(* Properties *)

Builders == {"ResNet50", "ResNet101", "ResNet152"}
Allowed == Range(allowed_backbones)
Idx(op) == {i \in 1..Len(calls) : calls[i].op = op}
BuildIdx == {i \in 1..Len(calls) : calls[i].op \in Builders}
HeadIdx == Idx("retinanet") \cup Idx("dualstream_retinanet")
Single == entry \in SingleEntries
Dual == entry \in DualEntries
Suffixed(name) == EndsWith(name, <<"_", "a">>) \/ EndsWith(name, <<"_", "b">>)

\* C1: validate() returns for exactly the identifiers that are one of
\* resnet50, resnet101, resnet152 or one of these followed by '_' and any
\* suffix, and raises ValueError for every other string.
C1_ValidateAcceptsExactly ==
    valid # NotCalled =>
        /\ valid \in {"ok", "ValueError"}
        /\ valid = "ok" <=>
               \E a \in Allowed :
                   self_backbone = a \/ StartsWith(self_backbone, a \o <<"_">>)

C1_Witness ==
    /\ valid = "ok"
    /\ self_backbone = resnet101 \o <<"_", "v">>

\* C2: for every identifier validate() accepts, download_imagenet() reaches
\* get_file with a depth among 50, 101, 152 and the checksum of that depth.
C2_DownloadDefinedWhenValid ==
    (valid = "ok" /\ dl.outcome # NotCalled) =>
        /\ dl.outcome = "get_file"
        /\ dl.depth \in {50, 101, 152}
        /\ dl.md5_hash # Unbound

\* C3: a constructor given an identifier other than resnet50, resnet101,
\* resnet152 ends with ValueError, and no backbone builder, modifier,
\* load_weights or head-builder call is made in that run.
C3_InvalidRaisesBeforeBuild ==
    (entry # "none" /\ frame.backbone \notin Allowed) =>
        /\ calls = <<>>
        /\ nets = <<>>
        /\ result = "none"
        /\ pc \in {"s_input", "s_build", "d_input", "d_build", "raised"}
        /\ pc = "raised" => err = "ValueError"

C3_Witness ==
    /\ pc = "raised"
    /\ err = "ValueError"
    /\ entry = "dualresnet_retinanet"
    /\ frame.backbone = resnet34

\* C4, as claimed: when the dual-stream head-builder is called, every layer
\* name of stream A ends with _a, every layer name of stream B ends with
\* _b, and no name of stream A is a name of stream B, whatever the modifier.
C4_SuffixesAnyModifier ==
    \A i \in Idx("dualstream_retinanet") :
        /\ \A k \in 1..Len(calls[i].names) : EndsWith(calls[i].names[k], <<"_", "a">>)
        /\ \A k \in 1..Len(calls[i].names_b) : EndsWith(calls[i].names_b[k], <<"_", "b">>)
        /\ Range(calls[i].names) \cap Range(calls[i].names_b) = {}

\* the two streams hold networks that have no layer object in common
StreamsShareNoLayer ==
    Range(nets[frame.resnet_a].layers) \cap Range(nets[frame.resnet_b].layers) = {}

\* C4, amended: the same, for every modifier (or none) that leaves the two
\* streams without a layer object in common.
C4_SuffixesDisjointStreams ==
    \A i \in Idx("dualstream_retinanet") :
        StreamsShareNoLayer =>
            /\ calls[i].names = LayerNames(frame.resnet_a)
            /\ calls[i].names_b = LayerNames(frame.resnet_b)
            /\ \A k \in 1..Len(calls[i].names) :
                   EndsWith(calls[i].names[k], <<"_", "a">>)
            /\ \A k \in 1..Len(calls[i].names_b) :
                   EndsWith(calls[i].names_b[k], <<"_", "b">>)
            /\ Range(calls[i].names) \cap Range(calls[i].names_b) = {}

C4_Witness ==
    /\ pc = "done"
    /\ entry = "dualresnet_retinanet"
    /\ frame.modifier = "wrap"
    /\ StreamsShareNoLayer
    /\ Len(calls[Len(calls)].names) = NumLayers + 2

\* the network a stream holds once the modifier step is over: what the
\* modifier returned for the network built at log entry i, or that network
ModifierGiven == frame.modifier \notin {Unread, "None"}
ModifierDone == frame.modifier # Unread /\ pc # "d_modifier_b"
ModCallsOn(n) == {i \in Idx("modifier") : calls[i].obj = n}
Instance(i) ==
    IF ModifierGiven
    THEN calls[CHOOSE m \in ModCallsOn(calls[i].ret) : TRUE].ret
    ELSE calls[i].ret
OwnedBy(tensors, n) == \A k \in 1..Len(tensors) : tensors[k][1] = n

\* C5: a modifier, when given, is called exactly once on each network built
\* (once in resnet_retinanet, twice in dualresnet_retinanet), and what it
\* returns takes the place of that network: load_weights is called on it and
\* the feature maps given to the head-builder are its outputs.
C5_ModifierOncePerInstance ==
    /\ ~ModifierGiven => Idx("modifier") = {}
    /\ (ModifierGiven /\ ModifierDone) =>
        /\ \A i \in BuildIdx : Cardinality(ModCallsOn(calls[i].ret)) = 1
        /\ Cardinality(Idx("modifier")) = Cardinality(BuildIdx)
        /\ Cardinality(BuildIdx) = IF Single THEN 1 ELSE 2
    /\ ModifierDone =>
        /\ Single =>
            /\ frame.resnet = Instance(1)
            /\ \A i \in Idx("load_weights") : calls[i].obj = Instance(1)
            /\ \A i \in Idx("retinanet") :
                   /\ OwnedBy(calls[i].backbone_layers, Instance(1))
                   /\ Len(calls[i].backbone_layers) = Len(nets[Instance(1)].outputs) - 1
        /\ Dual =>
            /\ frame.resnet_a = Instance(1)
            /\ frame.resnet_b = Instance(2)
            /\ \A i \in Idx("load_weights") :
                   calls[i].obj = IF i = Len(calls) - Cardinality(HeadIdx)
                                     /\ Cardinality(Idx("load_weights")) = 2
                                  THEN Instance(2) ELSE Instance(1)
            /\ \A i \in Idx("dualstream_retinanet") :
                   /\ OwnedBy(calls[i].backbone_layers, Instance(1))
                   /\ OwnedBy(calls[i].backbone_layers_b, Instance(2))
                   /\ Len(calls[i].backbone_layers) = Len(nets[Instance(1)].outputs) - 1
                   /\ Len(calls[i].backbone_layers_b) = Len(nets[Instance(2)].outputs) - 1

C5_Witness ==
    /\ pc = "done"
    /\ entry = "dualresnet_retinanet"
    /\ frame.modifier = "wrap"
    /\ frame.weights = "weights.h5"
    /\ Cardinality(Idx("modifier")) = 2
    /\ frame.resnet_a # calls[1].ret
    /\ frame.resnet_b # calls[2].ret

\* C6: resnet_retinanet gives the head-builder one input placeholder, the
\* class count it was given, and the outputs of the backbone without the
\* first one, in their order: one feature map fewer than the backbone has
\* outputs; a run that ends normally ends with that call.
C6_SingleForwardsAllButFirst ==
    /\ \A i \in Idx("retinanet") :
        LET outs == nets[frame.resnet].outputs
            fwd == calls[i].backbone_layers
        IN  /\ Single
            /\ calls[i].inputs = <<frame.inputs>>
            /\ frame.inputs \in 1..Len(placeholders)
            /\ calls[i].num_classes = frame.num_classes
            /\ Len(fwd) = Len(outs) - 1
            /\ \A k \in 1..Len(fwd) : fwd[k] = outs[k + 1]
    /\ (Single /\ pc = "done") =>
        /\ Idx("retinanet") = {Len(calls)}
        /\ frame.backbone \in Allowed
        /\ result = "retinanet"

C6_Witness ==
    /\ pc = "done"
    /\ entry = "resnet_retinanet"
    /\ frame.backbone = resnet50
    /\ frame.num_classes = 10
    /\ frame.modifier = "None"
    /\ Len(calls[Len(calls)].backbone_layers) = NumOutputs - 1

\* C7: a call of resnet50_retinanet, resnet101_retinanet or
\* resnet152_retinanet whose weights load returns the head-builder's result,
\* the head-builder having been given the one placeholder the constructor
\* built as its `inputs`.
C7_WrapperReturnsModel ==
    (entry \in Wrappers /\ pc \in {"done", "raised"} /\ err # "load_weights error") =>
        /\ pc = "done"
        /\ result = "retinanet"
        /\ \E i \in Idx("retinanet") : calls[i].inputs = <<frame.inputs>>

\* C8: dualresnet_retinanet builds two distinct placeholders; the channel
\* dimension of A is input_depth_a and that of B is input_depth_b, first in
\* the shape under channels_first and last otherwise, the other two
\* dimensions being None; backbone A is built on placeholder A only and
\* backbone B on placeholder B only.
C8_DualPlaceholders ==
    (Dual /\ pc # "d_input") =>
        LET a == frame.inputs_a
            b == frame.inputs_b
            sa == placeholders[a].shape
            sb == placeholders[b].shape
        IN  /\ a # b
            /\ placeholders[a].layer # placeholders[b].layer
            /\ IF frame.data_format = "channels_first"
               THEN /\ sa = <<frame.input_depth_a, NoneDim, NoneDim>>
                    /\ sb = <<frame.input_depth_b, NoneDim, NoneDim>>
               ELSE /\ sa = <<NoneDim, NoneDim, frame.input_depth_a>>
                    /\ sb = <<NoneDim, NoneDim, frame.input_depth_b>>
            /\ \A i \in BuildIdx :
                   /\ calls[i].obj = IF i = 1 THEN a ELSE b
                   /\ nets[calls[i].ret].input = calls[i].obj
            /\ Cardinality(BuildIdx) \in {0, 2}

C8_Witness ==
    /\ pc = "done"
    /\ entry = "dualresnet_retinanet"
    /\ frame.data_format = "channels_first"
    /\ frame.input_depth_a = 1
    /\ frame.input_depth_b = 3
    /\ Cardinality(BuildIdx) = 2

Rank(op) ==
    IF op \in Builders THEN 1
    ELSE IF op = "modifier" THEN 2
    ELSE IF op = "load_weights" THEN 3
    ELSE 4

\* C9: in dualresnet_retinanet the calls are made in the order builders,
\* modifier, load_weights, head-builder; load_weights sees only layer names
\* without a stream suffix, the head-builder only names with one, and once
\* a layer carries a suffix no load_weights call follows.
C9_DualOrder ==
    Dual =>
        /\ \A i, j \in 1..Len(calls) : i < j => Rank(calls[i].op) <= Rank(calls[j].op)
        /\ \A i \in Idx("load_weights") :
               \A k \in 1..Len(calls[i].names) : ~Suffixed(calls[i].names[k])
        /\ \A i \in Idx("dualstream_retinanet") :
               /\ i = Len(calls)
               /\ Cardinality(BuildIdx) = 2
               /\ \A k \in 1..Len(calls[i].names) : Suffixed(calls[i].names[k])
               /\ \A k \in 1..Len(calls[i].names_b) : Suffixed(calls[i].names_b[k])
        /\ (\E k \in 1..Len(lname) : Suffixed(lname[k])) =>
               pc \in {"d_rename_b", "d_head", "done", "raised"}
        /\ pc \in {"d_weights_a", "d_weights_b"} =>
               \A k \in 1..Len(lname) : ~Suffixed(lname[k])

C9_Witness ==
    /\ pc = "done"
    /\ entry = "dualresnet_retinanet"
    /\ frame.modifier = "freeze"
    /\ frame.weights = "weights.h5"
    /\ Len(calls) = 7

\* C10: after validate() has returned, retinanet() and
\* dualstream_retinanet() of the same descriptor never raise ValueError and,
\* past the dispatch, have called one of the three builders.
C10_ValidatedNeverInvalid ==
    (valid = "ok" /\ entry # "none") =>
        /\ err # "ValueError"
        /\ pc \notin {"s_input", "s_build", "d_input", "d_build"} => BuildIdx # {}

====
